---- MODULE Spec2Model ----
(***************************************************************************)
(* The risk-metrics pipeline of risk_ranger.py: main() from the point      *)
(* where the close prices are known (line 216) to the last statistic       *)
(* (line 233), and the pure functions it calls.                            *)
(*                                                                         *)
(* Numbers.  The program computes in IEEE double precision.  The model     *)
(* computes in exact rational arithmetic and keeps the three IEEE          *)
(* outcomes that are not numbers: a value is a record [cls, n, d] with     *)
(* cls = "fin" (the rational n/d in lowest terms, d > 0), "nan", or "inf"  *)
(* (n = 1 for +inf, n = -1 for -inf).  Rounding error is not modelled.     *)
(* A square root is kept as its radicand, and a quotient by a square root  *)
(* as its numerator and that radicand, so that no irrational is rounded.   *)
(***************************************************************************)
EXTENDS Integers, Sequences, FiniteSets

(* ------------------------------ bounds -------------------------------- *)

\* Longest price series explored.
MaxLen == 4
\* Prices explored are the integers 1..MaxPrice.
MaxPrice == 2
\* Timestamps explored are k, 2k, 3k, ... for a spacing k in 1..MaxStep.
MaxStep == 2

(* --------------------------- exact arithmetic -------------------------- *)

Abs(x) == IF x < 0 THEN -x ELSE x

RECURSIVE GCD(_, _)
GCD(a, b) == IF b = 0 THEN a ELSE GCD(b, a % b)

Sign(x) == IF x < 0 THEN -1 ELSE IF x = 0 THEN 0 ELSE 1

\* The rational n/d (d # 0) in lowest terms.
Rat(n, d) ==
    LET g == GCD(Abs(n), Abs(d))
        s == IF d < 0 THEN -1 ELSE 1
    IN  [cls |-> "fin", n |-> (s * n) \div g, d |-> (s * d) \div g]

Int2F(k) == [cls |-> "fin", n |-> k, d |-> 1]
NaN == [cls |-> "nan", n |-> 0, d |-> 1]
Inf(s) == [cls |-> "inf", n |-> s, d |-> 1]
\* A finite real that is not a rational the model can write down.
Irr == [cls |-> "irr", n |-> 0, d |-> 1]
\* A variable main() has not assigned yet.
Unset == [cls |-> "unset", n |-> 0, d |-> 1]

IsFin(x) == x.cls = "fin"
IsNaN(x) == x.cls = "nan"
IsInf(x) == x.cls = "inf"

FNeg(x) == IF IsFin(x) \/ IsInf(x) THEN [x EXCEPT !.n = -x.n] ELSE x

FAdd(x, y) ==
    IF IsNaN(x) \/ IsNaN(y) THEN NaN
    ELSE IF IsInf(x) /\ IsInf(y) THEN (IF x.n = y.n THEN x ELSE NaN)
    ELSE IF IsInf(x) THEN x
    ELSE IF IsInf(y) THEN y
    ELSE Rat(x.n * y.d + y.n * x.d, x.d * y.d)

FSub(x, y) == FAdd(x, FNeg(y))

FMul(x, y) ==
    IF IsNaN(x) \/ IsNaN(y) THEN NaN
    ELSE IF IsInf(x) \/ IsInf(y)
         THEN (IF x.n = 0 \/ y.n = 0 THEN NaN ELSE Inf(Sign(x.n) * Sign(y.n)))
    ELSE Rat(x.n * y.n, x.d * y.d)

\* IEEE division: x/0 is +-inf, 0/0 and inf/inf are NaN; nothing is raised.
FDiv(x, y) ==
    IF IsNaN(x) \/ IsNaN(y) THEN NaN
    ELSE IF IsInf(x) THEN (IF IsInf(y) THEN NaN
                           ELSE Inf(x.n * (IF y.n < 0 THEN -1 ELSE 1)))
    ELSE IF IsInf(y) THEN Int2F(0)
    ELSE IF y.n = 0 THEN (IF x.n = 0 THEN NaN ELSE Inf(Sign(x.n)))
    ELSE Rat(x.n * y.d, x.d * y.n)

\* Comparisons; any comparison with NaN is false.
FLe(x, y) ==
    IF IsNaN(x) \/ IsNaN(y) THEN FALSE
    ELSE IF IsInf(x) THEN (x.n = -1 \/ (IsInf(y) /\ y.n = 1))
    ELSE IF IsInf(y) THEN y.n = 1
    ELSE x.n * y.d <= y.n * x.d

FLt(x, y) == FLe(x, y) /\ x # y

FMax(x, y) == IF FLe(x, y) THEN y ELSE x

RECURSIVE FPowInt(_, _)
FPowInt(x, k) == IF k = 0 THEN Int2F(1) ELSE FMul(x, FPowInt(x, k - 1))

RECURSIVE IPow(_, _)
IPow(b, k) == IF k = 0 THEN 1 ELSE b * IPow(b, k - 1)

\* The exact k-th root of a non-negative rational that has one.
FRoot(x, k) ==
    LET rn == CHOOSE a \in 0..x.n : IPow(a, k) = x.n
        rd == CHOOSE b \in 1..x.d : IPow(b, k) = x.d
    IN  Rat(rn, rd)

\* x ** (e/f) for integers e >= 0, f >= 1: a negative base under a fractional
\* exponent is NaN in double precision.
FPow(x, e, f) ==
    LET g == GCD(e, f)
        ee == e \div g
        ff == f \div g
    IN  IF ~IsFin(x) THEN x
        ELSE IF ff = 1 THEN FPowInt(x, ee)
        ELSE IF x.n < 0 THEN NaN
        ELSE FPowInt(FRoot(x, ff), ee)

\* A finite x replaced by its sign: x/y and SignOnly(x)/SignOnly(y) have the
\* same IEEE class and sign.
SignOnly(x) == IF IsFin(x) THEN Int2F(Sign(x.n)) ELSE x

\* sqrt(x), kept as its radicand.
Sqrt(x) == [radicand |-> x]
\* x / sqrt(v), kept as numerator and radicand, with the IEEE class of the
\* quotient.
DivSqrt(x, s) ==
    LET v == s.radicand
        c == FDiv(SignOnly(x), SignOnly(v))
    IN  [cls |-> c.cls, sgn |-> IF IsFin(c) THEN Sign(c.n) ELSE c.n,
         num |-> IF IsFin(c) THEN x ELSE Int2F(0),
         rad |-> IF IsFin(c) THEN v ELSE Int2F(0)]
QUnset == [cls |-> "unset", sgn |-> 0, num |-> Int2F(0), rad |-> Int2F(0)]

(* ---------------------- a pandas Series of numbers --------------------- *)
\* A Series is a sequence of records [ts, val]: the index label and the value.

Vals(r) == [i \in 1..Len(r) |-> r[i].val]

RECURSIVE SumSeq(_)
SumSeq(xs) == IF xs = <<>> THEN Int2F(0) ELSE FAdd(Head(xs), SumSeq(Tail(xs)))

RECURSIVE ProdSeq(_)
ProdSeq(xs) == IF xs = <<>> THEN Int2F(1) ELSE FMul(Head(xs), ProdSeq(Tail(xs)))

\* Series.mean(): the mean of no observation is NaN.
Mean(xs) == FDiv(SumSeq(xs), Int2F(Len(xs)))

Deviations(xs) == [i \in 1..Len(xs) |-> FSub(xs[i], Mean(xs))]

\* Series.std(ddof) squared: NaN when there are no more than ddof observations.
Variance(xs, ddof) ==
    IF Len(xs) <= ddof THEN NaN
    ELSE LET dv == Deviations(xs)
         IN  FDiv(SumSeq([i \in 1..Len(xs) |-> FMul(dv[i], dv[i])]),
                  Int2F(Len(xs) - ddof))

(* ------------------------- get_daily_returns --------------------------- *)

\* Series.pct_change(): the first element has no predecessor and is NaN.
pct_change(prices) ==
    [i \in 1..Len(prices) |->
        [ts  |-> prices[i].ts,
         val |-> IF i = 1 THEN NaN
                 ELSE FSub(FDiv(prices[i].val, prices[i - 1].val), Int2F(1))]]

\* Mutant of dropna: the NaN elements are replaced by 0 and kept.
dropna_fill_zero(s) ==
    [i \in 1..Len(s) |->
        [ts |-> s[i].ts, val |-> IF IsNaN(s[i].val) THEN Int2F(0) ELSE s[i].val]]

\* Series.dropna(): the elements that are not NaN, in order, labels kept.
dropna(s) == SelectSeq(s, LAMBDA e : ~IsNaN(e.val))

get_daily_returns(prices) ==
    LET kept == dropna(pct_change(prices))
    IN  [i \in 1..Len(kept) |->
            [ts |-> kept[i].ts, val |-> FMul(kept[i].val, Int2F(100))]]

calculate_total_return(prices) ==
    FMul(FSub(FDiv(prices[Len(prices)].val, prices[1].val), Int2F(1)), Int2F(100))

(* ------------------------------- moments ------------------------------- *)

standard_deviation(r) == Sqrt(Variance(Vals(r), 0))

\* Skewness and kurtosis are quotients homogeneous of degree 0 in the
\* deviations.  The deviations' common factor is divided out before the third
\* and fourth powers are taken: the quotient is the same, and the powers stay
\* within the model checker's integers.  Constant returns leave 0/0.
RECURSIVE LcmDen(_)
LcmDen(xs) ==
    IF xs = <<>> THEN 1
    ELSE LET l == LcmDen(Tail(xs))
         IN  (Head(xs).d * l) \div GCD(Head(xs).d, l)

RECURSIVE GcdAll(_)
GcdAll(ks) == IF ks = <<>> THEN 0 ELSE GCD(Abs(Head(ks)), GcdAll(Tail(ks)))

\* The deviations as integers without a common factor.
Units(xs) ==
    LET dv == Deviations(xs)
        l  == LcmDen(dv)
        as == [i \in 1..Len(dv) |-> dv[i].n * (l \div dv[i].d)]
        g  == GcdAll(as)
    IN  [i \in 1..Len(as) |-> IF g = 0 THEN 0 ELSE as[i] \div g]

\* The common factor itself, as a rational: Deviations = UnitScale * Units.
UnitScale(xs) ==
    LET dv == Deviations(xs)
        l  == LcmDen(dv)
    IN  Rat(GcdAll([i \in 1..Len(dv) |-> dv[i].n * (l \div dv[i].d)]), l)

\* mean(u ** k)
PowerMean(us, k) ==
    Mean([i \in 1..Len(us) |-> Int2F(IPow(us[i], k))])

\* cubed_deviations / std ** 3
skewness(r) ==
    LET us == Units(Vals(r))
        m2 == PowerMean(us, 2)
    IN  DivSqrt(FDiv(PowerMean(us, 3), m2), Sqrt(m2))

\* exp4_deviations / std ** 4: the raw fourth standardized moment
kurtosis(r) ==
    LET us == Units(Vals(r))
        m2 == PowerMean(us, 2)
    IN  FDiv(PowerMean(us, 4), FMul(m2, m2))

(* ------------------------------ get_level ------------------------------ *)

\* str.isdigit() of the text of an integer: true unless it carries a sign.
isdigit(choice) == choice >= 0

get_level(choice) == 100 - choice

(* ---------------------------- VaR and CVaR ----------------------------- *)

RECURSIVE Insert(_, _)
Insert(x, xs) ==
    IF xs = <<>> THEN <<x>>
    ELSE IF FLe(x, Head(xs)) THEN <<x>> \o xs
    ELSE <<Head(xs)>> \o Insert(x, Tail(xs))

RECURSIVE Sorted(_)
Sorted(xs) == IF xs = <<>> THEN <<>> ELSE Insert(Head(xs), Sorted(Tail(xs)))

\* np.percentile refuses a percentile outside [0, 100] with a ValueError.
percentile_raises(level) == level < 0 \/ level > 100

\* Mutant of percentile: the lower neighbour, without interpolation.
percentile_lower(xs, level) ==
    Sorted(xs)[((level * (Len(xs) - 1)) \div 100) + 1]

\* np.percentile(xs, level), method "linear": the value at the virtual index
\* level/100 * (n-1) of the sorted data, interpolated between its neighbours.
percentile(xs, level) ==
    LET a    == Sorted(xs)
        n    == Len(xs)
        pos  == level * (n - 1)
        lo   == pos \div 100
        hi   == IF lo + 1 <= n - 1 THEN lo + 1 ELSE n - 1
        frac == Rat(pos % 100, 100)
    IN  FAdd(a[lo + 1], FMul(FSub(a[hi + 1], a[lo + 1]), frac))

\* Mutant of var_historic: the percentile itself, not negated.
var_historic_unnegated(r, level) == percentile(Vals(r), level)

var_historic(r, level) == FNeg(percentile(Vals(r), level))

\* Mutant of is_beyond: the returns at or above the threshold.
is_beyond_upper(r, level) ==
    SelectSeq(r, LAMBDA e : FLe(FNeg(var_historic(r, level)), e.val))

\* r[is_beyond]
is_beyond(r, level) ==
    SelectSeq(r, LAMBDA e : FLe(e.val, FNeg(var_historic(r, level))))

cvar_historic(r, level) == FNeg(Mean(Vals(is_beyond(r, level))))

\* scipy.stats.norm.ppf(level / 100): 0 at one half, -inf and +inf at 0 and 1,
\* NaN outside [0, 1], and otherwise a finite irrational.
norm_ppf(level) ==
    IF level < 0 \/ level > 100 THEN NaN
    ELSE IF level = 0 THEN Inf(-1)
    ELSE IF level = 100 THEN Inf(1)
    ELSE IF level = 50 THEN Int2F(0)
    ELSE Irr

\* The Cornish-Fisher VaR.  An infinite z gives z**3 - 3*z = NaN, and a NaN
\* skewness or kurtosis makes every term NaN.  At z = 0 the expansion is
\* -s/6 and the result -(mean - s*std/6), where s*std = m3/variance is
\* rational.  For every other z the result is finite and irrational.
var_cornishfisher(r, level) ==
    LET z  == norm_ppf(level)
        s  == skewness(r)
        k  == kurtosis(r)
        us == Units(Vals(r))
        sstd == FMul(UnitScale(Vals(r)),
                     FDiv(PowerMean(us, 3), PowerMean(us, 2)))
    IN  IF IsNaN(z) \/ IsInf(z) \/ s.cls # "fin" \/ ~IsFin(k) THEN NaN
        ELSE IF z = Int2F(0)
             THEN FNeg(FSub(Mean(Vals(r)), FDiv(sstd, Int2F(6))))
        ELSE Irr

(* --------------------------- get_max_drawdown -------------------------- *)

wealth_index(prices) ==
    [i \in 1..Len(prices) |-> FDiv(prices[i].val, prices[1].val)]

\* Mutant of cummax: the peak before the current element.
cummax_lagged(xs) ==
    [i \in 1..Len(xs) |->
        IF i = 1 THEN xs[1]
        ELSE CHOOSE m \in {xs[j] : j \in 1..(i - 1)} :
                \A j \in 1..(i - 1) : FLe(xs[j], m)]

\* Series.cummax()
RECURSIVE cummax(_)
cummax(xs) ==
    IF Len(xs) <= 1 THEN xs
    ELSE LET front == cummax(SubSeq(xs, 1, Len(xs) - 1))
         IN  Append(front, FMax(front[Len(front)], xs[Len(xs)]))

drawdown_series(prices) ==
    LET w == wealth_index(prices)
        p == cummax(w)
    IN  [i \in 1..Len(prices) |-> FDiv(FSub(w[i], p[i]), p[i])]

\* Series.min()
RECURSIVE MinSeq(_)
MinSeq(xs) ==
    IF Len(xs) = 1 THEN xs[1]
    ELSE LET m == MinSeq(Tail(xs))
         IN  IF FLe(Head(xs), m) THEN Head(xs) ELSE m

\* Mutant of idxmin: the last occurrence of the minimum.
idxmin_last(xs) == CHOOSE i \in 1..Len(xs) :
                      /\ xs[i] = MinSeq(xs)
                      /\ \A j \in (i + 1)..Len(xs) : xs[j] # MinSeq(xs)

\* Series.idxmin(): the position of the first occurrence of the minimum.
idxmin(xs) == CHOOSE i \in 1..Len(xs) :
                 /\ xs[i] = MinSeq(xs)
                 /\ \A j \in 1..(i - 1) : xs[j] # MinSeq(xs)

get_max_drawdown(prices) ==
    LET dd == drawdown_series(prices)
    IN  [max_drawdown |-> MinSeq(dd), date |-> prices[idxmin(dd)].ts]

(* ----------------------------- annualizing ----------------------------- *)

\* r.std() is the sample standard deviation (pandas' default ddof = 1).
annualize_vol(r, periods_per_year) ==
    Sqrt(FMul(Variance(Vals(r), 1), Int2F(periods_per_year)))

annualize_rets(r, periods_per_year) ==
    LET compounded_growth ==
            ProdSeq([i \in 1..Len(r) |->
                        FAdd(Int2F(1), FDiv(r[i].val, Int2F(100)))])
        n_periods == Len(r)
    IN  FMul(FSub(FPow(compounded_growth, periods_per_year, n_periods),
                  Int2F(1)),
             Int2F(100))

rf_per_period(riskfree_rate, periods_per_year) ==
    FMul(FSub(FPow(FAdd(Int2F(1), FDiv(riskfree_rate, Int2F(100))),
                   1, periods_per_year),
              Int2F(1)),
         Int2F(100))

excess_ret(r, riskfree_rate, periods_per_year) ==
    [i \in 1..Len(r) |->
        [ts  |-> r[i].ts,
         val |-> FSub(r[i].val, rf_per_period(riskfree_rate, periods_per_year))]]

\* Mutant of sharpe_ratio: the annualized return less the annual rate.
sharpe_ratio_arithmetic(r, riskfree_rate, periods_per_year) ==
    DivSqrt(FSub(annualize_rets(r, periods_per_year), riskfree_rate),
            annualize_vol(r, periods_per_year))

sharpe_ratio(r, riskfree_rate, periods_per_year) ==
    LET ann_ex_ret == annualize_rets(excess_ret(r, riskfree_rate, periods_per_year),
                                     periods_per_year)
        ann_vol    == annualize_vol(r, periods_per_year)
    IN  DivSqrt(ann_ex_ret, ann_vol)

(* ------------------------------- inputs -------------------------------- *)

\* A price series indexed by the timestamps step, 2*step, 3*step, ...
Series(ps, step) == [i \in 1..Len(ps) |-> [ts |-> i * step, val |-> ps[i]]]

\* Prices 100, 110, 121, 108.9: returns 10, 10, -10 percent.
ReturnScenario == <<Int2F(100), Int2F(110), Int2F(121), Rat(1089, 10)>>
\* Prices 100, 120, 90, 150.
DrawdownScenario == <<Int2F(100), Int2F(120), Int2F(90), Int2F(150)>>

\* What yfinance hands to main(): at least two positive prices under strictly
\* increasing timestamps.
PriceSeriesInputs ==
    LET grids == UNION {[1..n -> 1..MaxPrice] : n \in 2..MaxLen}
    IN  {Series([i \in 1..Len(g) |-> Int2F(g[i])], step) :
            g \in grids, step \in 1..MaxStep}
        \cup {Series(ps, step) :
                ps \in {ReturnScenario, DrawdownScenario}, step \in 1..MaxStep}

\* What the user may type at the confidence prompt: the text of an integer.
ConfidenceInputs == {-5, 0, 50, 90, 95, 100, 150}

\* main() fixes periods_per_year = 252.  A 252/n-th power of the compounded
\* growth leaves the model checker's integers, so the model runs the same
\* statements with the periods per year set to n or 2n for n returns.
PeriodChoices(n) == {n, 2 * n}

\* Annual risk-free rates whose per-period rate is 0 or 50 percent, so that
\* the periods_per_year-th root taken by sharpe_ratio is exact.
PerPeriodRates == {0, 50}
RiskFreeRates(p) ==
    {FMul(FSub(FPowInt(Rat(100 + x, 100), p), Int2F(1)), Int2F(100)) :
        x \in PerPeriodRates}

(* ------------------------------- main() -------------------------------- *)

VARIABLES
    pc,                     \* the statement of main() that runs next
    error,                  \* the exception that ended main(), or "none"
    close_prices,
    total_return,
    daily_returns,
    volatility,
    last_input,             \* the last text typed at the confidence prompt
    level,
    var_hist,
    cvar_hist,
    skew,                   \* s and k inside var_cornishfisher
    kurt,
    var_cornish,
    drawdowns,
    max_drawdown,
    drawdown_date,
    periods_per_year,
    annualized_returns,
    annualized_vol,
    returns_vol_ratio,
    annual_risk_free_rate,
    excess_returns,
    sharpe

vars == <<pc, error, close_prices, total_return, daily_returns, volatility,
          last_input, level, var_hist, cvar_hist, skew, kurt, var_cornish,
          drawdowns, max_drawdown, drawdown_date, periods_per_year,
          annualized_returns, annualized_vol, returns_vol_ratio,
          annual_risk_free_rate, excess_returns, sharpe>>

Init ==
    /\ pc = "get_daily_returns"
    /\ error = "none"
    /\ close_prices \in PriceSeriesInputs
    /\ total_return = Unset
    /\ daily_returns = <<>>
    /\ volatility = Sqrt(Unset)
    /\ last_input = <<>>
    /\ level = 0
    /\ var_hist = Unset
    /\ cvar_hist = Unset
    /\ skew = QUnset
    /\ kurt = Unset
    /\ var_cornish = Unset
    /\ drawdowns = <<>>
    /\ max_drawdown = Unset
    /\ drawdown_date = 0
    /\ periods_per_year = 0
    /\ annualized_returns = Unset
    /\ annualized_vol = Sqrt(Unset)
    /\ returns_vol_ratio = QUnset
    /\ annual_risk_free_rate = Unset
    /\ excess_returns = Unset
    /\ sharpe = QUnset

\* Lines 216-218.
GetDailyReturns ==
    /\ pc = "get_daily_returns"
    /\ total_return' = calculate_total_return(close_prices)
    /\ daily_returns' = get_daily_returns(close_prices)
    /\ volatility' = standard_deviation(daily_returns')
    /\ pc' = "get_level"
    /\ UNCHANGED <<error, close_prices, last_input, level, var_hist, cvar_hist,
                   skew, kurt, var_cornish, drawdowns, max_drawdown,
                   drawdown_date, periods_per_year, annualized_returns,
                   annualized_vol, returns_vol_ratio, annual_risk_free_rate,
                   excess_returns, sharpe>>

\* Line 219, get_level(): an input that is not all digits is refused and the
\* prompt comes again.
GetLevelRefused ==
    /\ pc = "get_level"
    /\ \E choice \in ConfidenceInputs :
          /\ ~isdigit(choice)
          /\ last_input' = <<choice>>
    /\ UNCHANGED <<pc, error, close_prices, total_return, daily_returns,
                   volatility, level, var_hist, cvar_hist, skew, kurt,
                   var_cornish, drawdowns, max_drawdown, drawdown_date,
                   periods_per_year, annualized_returns, annualized_vol,
                   returns_vol_ratio, annual_risk_free_rate, excess_returns,
                   sharpe>>

\* Line 219, get_level(): any input of digits is taken.
GetLevel ==
    /\ pc = "get_level"
    /\ \E choice \in ConfidenceInputs :
          /\ isdigit(choice)
          /\ last_input' = <<choice>>
          /\ level' = get_level(choice)
    /\ pc' = "var_historic"
    /\ UNCHANGED <<error, close_prices, total_return, daily_returns,
                   volatility, var_hist, cvar_hist, skew, kurt, var_cornish,
                   drawdowns, max_drawdown, drawdown_date, periods_per_year,
                   annualized_returns, annualized_vol, returns_vol_ratio,
                   annual_risk_free_rate, excess_returns, sharpe>>

\* Line 221: np.percentile raises for a level outside [0, 100], which ends
\* main().
VarHistoric ==
    /\ pc = "var_historic"
    /\ IF percentile_raises(level)
       THEN /\ error' = "ValueError"
            /\ pc' = "crashed"
            /\ UNCHANGED var_hist
       ELSE /\ var_hist' = var_historic(daily_returns, level)
            /\ pc' = "cvar_historic"
            /\ UNCHANGED error
    /\ UNCHANGED <<close_prices, total_return, daily_returns, volatility,
                   last_input, level, cvar_hist, skew, kurt, var_cornish,
                   drawdowns, max_drawdown, drawdown_date, periods_per_year,
                   annualized_returns, annualized_vol, returns_vol_ratio,
                   annual_risk_free_rate, excess_returns, sharpe>>

\* Line 222.
CvarHistoric ==
    /\ pc = "cvar_historic"
    /\ cvar_hist' = cvar_historic(daily_returns, level)
    /\ pc' = "var_cornishfisher"
    /\ UNCHANGED <<error, close_prices, total_return, daily_returns,
                   volatility, last_input, level, var_hist, skew, kurt,
                   var_cornish, drawdowns, max_drawdown, drawdown_date,
                   periods_per_year, annualized_returns, annualized_vol,
                   returns_vol_ratio, annual_risk_free_rate, excess_returns,
                   sharpe>>

\* Line 223.
VarCornishFisher ==
    /\ pc = "var_cornishfisher"
    /\ skew' = skewness(daily_returns)
    /\ kurt' = kurtosis(daily_returns)
    /\ var_cornish' = var_cornishfisher(daily_returns, level)
    /\ pc' = "get_max_drawdown"
    /\ UNCHANGED <<error, close_prices, total_return, daily_returns,
                   volatility, last_input, level, var_hist, cvar_hist,
                   drawdowns, max_drawdown, drawdown_date, periods_per_year,
                   annualized_returns, annualized_vol, returns_vol_ratio,
                   annual_risk_free_rate, excess_returns, sharpe>>

\* Line 224.
GetMaxDrawdown ==
    /\ pc = "get_max_drawdown"
    /\ drawdowns' = drawdown_series(close_prices)
    /\ max_drawdown' = get_max_drawdown(close_prices).max_drawdown
    /\ drawdown_date' = get_max_drawdown(close_prices).date
    /\ pc' = "annualize"
    /\ UNCHANGED <<error, close_prices, total_return, daily_returns,
                   volatility, last_input, level, var_hist, cvar_hist, skew,
                   kurt, var_cornish, periods_per_year, annualized_returns,
                   annualized_vol, returns_vol_ratio, annual_risk_free_rate,
                   excess_returns, sharpe>>

\* Lines 226-229.
Annualize ==
    /\ pc = "annualize"
    /\ \E p \in PeriodChoices(Len(daily_returns)) :
          /\ periods_per_year' = p
          /\ annualized_returns' = annualize_rets(daily_returns, p)
          /\ annualized_vol' = annualize_vol(daily_returns, p)
    /\ returns_vol_ratio' = DivSqrt(annualized_returns', annualized_vol')
    /\ pc' = "sharpe_ratio"
    /\ UNCHANGED <<error, close_prices, total_return, daily_returns,
                   volatility, last_input, level, var_hist, cvar_hist, skew,
                   kurt, var_cornish, drawdowns, max_drawdown, drawdown_date,
                   annual_risk_free_rate, excess_returns, sharpe>>

\* Lines 231-233.
SharpeRatio ==
    /\ pc = "sharpe_ratio"
    /\ \E rf \in RiskFreeRates(periods_per_year) :
          /\ annual_risk_free_rate' = rf
          /\ excess_returns' = FSub(annualized_returns, rf)
          /\ sharpe' = sharpe_ratio(daily_returns, rf, periods_per_year)
    /\ pc' = "done"
    /\ UNCHANGED <<error, close_prices, total_return, daily_returns,
                   volatility, last_input, level, var_hist, cvar_hist, skew,
                   kurt, var_cornish, drawdowns, max_drawdown, drawdown_date,
                   periods_per_year, annualized_returns, annualized_vol,
                   returns_vol_ratio>>

Next ==
    \/ GetDailyReturns
    \/ GetLevelRefused
    \/ GetLevel
    \/ VarHistoric
    \/ CvarHistoric
    \/ VarCornishFisher
    \/ GetMaxDrawdown
    \/ Annualize
    \/ SharpeRatio

Spec == Init /\ [][Next]_vars

(* ------------------------------ properties ----------------------------- *)

\* The statements of main() that have run, by the statement that runs next.
ReturnsKnown == pc # "get_daily_returns"
LevelKnown == pc \notin {"get_daily_returns", "get_level"}
VarKnown == pc \in {"cvar_historic", "var_cornishfisher", "get_max_drawdown",
                    "annualize", "sharpe_ratio", "done"}
CvarKnown == pc \in {"var_cornishfisher", "get_max_drawdown", "annualize",
                     "sharpe_ratio", "done"}
MomentsKnown == pc \in {"get_max_drawdown", "annualize", "sharpe_ratio", "done"}
DrawdownKnown == pc \in {"annualize", "sharpe_ratio", "done"}
AnnualizedKnown == pc \in {"sharpe_ratio", "done"}

NPrices == Len(close_prices)
NReturns == Len(daily_returns)
Price(i) == close_prices[i].val
Ret(i) == daily_returns[i].val

ConstantPrices == \A i, j \in 1..NPrices : Price(i) = Price(j)
NonDecreasingPrices == \A i \in 1..(NPrices - 1) : FLe(Price(i), Price(i + 1))
IsReturnScenario == Vals(close_prices) = ReturnScenario
IsDrawdownScenario == Vals(close_prices) = DrawdownScenario

NotANumber(c) == c \in {"nan", "inf"}

\* C1: for a constant price series, every ratio-based statistic (skewness,
\* kurtosis, Cornish-Fisher VaR, return-to-volatility ratio, Sharpe ratio) is
\* refused with a ZeroVolatility error and none is returned as NaN or
\* infinite.  Stated for a confidence level inside (0, 100).
C1_ZeroVolatilityRejected ==
    (ConstantPrices /\ 0 < level /\ level < 100) =>
        /\ ~NotANumber(skew.cls)
        /\ ~NotANumber(kurt.cls)
        /\ ~NotANumber(var_cornish.cls)
        /\ ~NotANumber(returns_vol_ratio.cls)
        /\ ~NotANumber(sharpe.cls)
        /\ (MomentsKnown => error = "ZeroVolatility")

PerPeriodRate ==
    CHOOSE x \in {Int2F(v) : v \in PerPeriodRates} :
        FPowInt(FAdd(Int2F(1), FDiv(x, Int2F(100))), periods_per_year)
            = FAdd(Int2F(1), FDiv(annual_risk_free_rate, Int2F(100)))

\* The compounded growth of the returns less x percent each.
ExcessGrowth(x) ==
    ProdSeq([i \in 1..NReturns |->
                FAdd(Int2F(1), FDiv(FSub(Ret(i), x), Int2F(100)))])

SumSquaredDeviations ==
    SumSeq([i \in 1..NReturns |->
               FMul(FSub(Ret(i), Mean(Vals(daily_returns))),
                    FSub(Ret(i), Mean(Vals(daily_returns))))])

\* C3: for n >= 2 returns the annualized volatility is the population standard
\* deviation (denominator n, the value standard_deviation returns) times
\* sqrt(periods_per_year): annualize_vol ** 2 * n = p * sum((r_i - mean) ** 2).
\* Stated for a confidence level inside (0, 100).
C3_AnnualizedVolIsPopulation ==
    (AnnualizedKnown /\ NReturns >= 2 /\ 0 < level /\ level < 100) =>
        /\ FMul(annualized_vol.radicand, Int2F(NReturns))
              = FMul(Int2F(periods_per_year), SumSquaredDeviations)
        /\ annualized_vol.radicand
              = FMul(volatility.radicand, Int2F(periods_per_year))

\* The returns at or below the negated VaR.
TailIndices == {i \in 1..NReturns : FLe(Ret(i), FNeg(var_hist))}

\* C4: whenever the CVaR tail is non-empty, the historic CVaR is at least the
\* historic VaR.
C4_CVaRDominatesVaR ==
    (CvarKnown /\ TailIndices # {}) => FLe(var_hist, cvar_hist)

\* C4 witness: a computed CVaR over a non-empty tail, strictly above the VaR.
C4_Witness ==
    /\ CvarKnown
    /\ TailIndices # {}
    /\ IsFin(cvar_hist)
    /\ FLt(var_hist, cvar_hist)

\* The running peak of the wealth index at i, as a maximum over 1..i.
Wealth(i) == FDiv(Price(i), Price(1))
Peak(i) ==
    CHOOSE m \in {Wealth(j) : j \in 1..i} : \A j \in 1..i : FLe(Wealth(j), m)

\* C5: every element of the drawdown series is <= 0 (the running peak is at
\* least the current wealth), and a non-decreasing price series has maximum
\* drawdown exactly 0.
C5_DrawdownNonPositive ==
    DrawdownKnown =>
        /\ Len(drawdowns) = NPrices
        /\ \A i \in 1..NPrices : FLe(drawdowns[i], Int2F(0))
        /\ (NonDecreasingPrices => max_drawdown = Int2F(0))

\* C5 witness: a non-decreasing series that rises, analysed, with drawdown 0.
C5_Witness ==
    /\ DrawdownKnown
    /\ NonDecreasingPrices
    /\ ~ConstantPrices
    /\ max_drawdown = Int2F(0)

\* The k-th smallest return (k in 1..n), by counting.
OrderStatistic(k) ==
    CHOOSE v \in {Ret(i) : i \in 1..NReturns} :
        /\ Cardinality({i \in 1..NReturns : FLt(Ret(i), v)}) < k
        /\ Cardinality({i \in 1..NReturns : FLe(Ret(i), v)}) >= k

\* The level-th percentile by linear interpolation between the two order
\* statistics around the virtual index level/100 * (n-1).
InterpolatedPercentile ==
    LET pos == level * (NReturns - 1)
        lo  == pos \div 100
        hi  == IF lo + 2 <= NReturns THEN lo + 2 ELSE NReturns
    IN  FAdd(OrderStatistic(lo + 1),
             FMul(FSub(OrderStatistic(hi), OrderStatistic(lo + 1)),
                  Rat(pos % 100, 100)))

\* C6 as claimed: with prices 100, 110, 121, 108.9 and tail level 10 the
\* historic VaR is approximately 9.4 (here: within 9.4 +- 0.05) and the
\* historic CVaR 10.
C6_ScenarioVaRIsNear94 ==
    (IsReturnScenario /\ level = 10) =>
        /\ (VarKnown => /\ FLe(Rat(935, 100), var_hist)
                        /\ FLe(var_hist, Rat(945, 100)))
        /\ (CvarKnown => cvar_hist = Int2F(10))

\* C6 as amended: the historic VaR is the negated percentile by linear
\* interpolation between the two nearest order statistics; prices 100, 110,
\* 121, 108.9 give returns 10, 10, -10 and at tail level 10 the VaR is
\* exactly 6 (= -(-10 + 0.2 * 20)) and the CVaR is 10.
C6_VaRIsInterpolatedPercentile ==
    /\ (VarKnown => var_hist = FNeg(InterpolatedPercentile))
    /\ (IsReturnScenario /\ ReturnsKnown =>
            Vals(daily_returns) = <<Int2F(10), Int2F(10), Int2F(-10)>>)
    /\ (IsReturnScenario /\ level = 10 =>
            /\ (VarKnown => var_hist = Int2F(6))
            /\ (CvarKnown => cvar_hist = Int2F(10)))

\* C6 witness: the scenario at tail level 10 with VaR and CVaR computed.
C6_Witness ==
    /\ IsReturnScenario
    /\ level = 10
    /\ CvarKnown
    /\ var_hist = Int2F(6)

\* C7: every tail level get_level returns, and every level used by
\* var_historic, cvar_historic and var_cornishfisher, is 100 - c for an integer
\* confidence c with 0 < c < 100; a confidence of 0, 100 or 150 is refused.
C7_LevelInsideOpenRange ==
    LevelKnown =>
        /\ 0 < level /\ level < 100
        /\ last_input[1] \in 1..99
        /\ level = 100 - last_input[1]

\* C8: max_drawdown is the minimum over i of (wealth[i] - peak[i]) / peak[i],
\* wealth[i] = price[i]/price[0], peak[i] = max(wealth[0..i]); the date is the
\* timestamp of the leftmost index attaining it; prices 100, 120, 90, 150 give
\* -0.25 at the third timestamp.
C8_MaxDrawdownLeftmostMinimum ==
    DrawdownKnown =>
        /\ \A i \in 1..NPrices :
              drawdowns[i] = FDiv(FSub(Wealth(i), Peak(i)), Peak(i))
        /\ \A i \in 1..NPrices : FLe(max_drawdown, drawdowns[i])
        /\ \E i \in 1..NPrices :
              /\ drawdowns[i] = max_drawdown
              /\ close_prices[i].ts = drawdown_date
              /\ \A j \in 1..(i - 1) : drawdowns[j] # max_drawdown
        /\ (IsDrawdownScenario =>
              /\ max_drawdown = Rat(-1, 4)
              /\ drawdown_date = close_prices[3].ts)

\* C8 witness: a negative minimum drawdown attained at two indices.
C8_Witness ==
    /\ DrawdownKnown
    /\ FLt(max_drawdown, Int2F(0))
    /\ \E i, j \in 1..NPrices :
          /\ i < j
          /\ drawdowns[i] = max_drawdown
          /\ drawdowns[j] = max_drawdown
          /\ close_prices[i].ts = drawdown_date

\* C9: n >= 2 positive prices give exactly n-1 returns, the k-th being
\* (price[k]/price[k-1] - 1) * 100 under the timestamp of price[k]; the first
\* price has no return and no placeholder.
C9_ReturnsDropFirstPrice ==
    ReturnsKnown =>
        /\ NReturns = NPrices - 1
        /\ \A k \in 1..(NPrices - 1) :
              /\ daily_returns[k].ts = close_prices[k + 1].ts
              /\ Ret(k) = FMul(FSub(FDiv(Price(k + 1), Price(k)), Int2F(1)),
                               Int2F(100))

\* C9 witness: returns computed from a series of at least three prices that
\* moves.
C9_Witness ==
    /\ ReturnsKnown
    /\ NPrices >= 3
    /\ NReturns = NPrices - 1
    /\ ~ConstantPrices

\* C10: for a non-empty return series and a tail level in [0, 100] the returns
\* selected by cvar_historic include the minimum return, so the tail is never
\* empty and the CVaR is never the mean of no observation.
C10_TailHoldsMinimum ==
    /\ (VarKnown =>
          /\ level \in 0..100
          /\ NReturns >= 1
          /\ \E i \in TailIndices : \A j \in 1..NReturns : FLe(Ret(i), Ret(j)))
    /\ (CvarKnown =>
          /\ IsFin(cvar_hist)
          /\ cvar_hist = FNeg(Mean([i \in 1..Cardinality(TailIndices) |->
                 Ret(CHOOSE t \in TailIndices :
                        Cardinality({u \in TailIndices : u < t}) = i - 1)])))

\* C10 witness: a computed CVaR whose tail leaves some return out.
C10_Witness ==
    /\ CvarKnown
    /\ IsFin(cvar_hist)
    /\ TailIndices # {}
    /\ \E i \in 1..NReturns : i \notin TailIndices

====
